---- MODULE Spec2Model ----
(***************************************************************************)
(* Model of workout_whatsapp_notifier.py: the message chunker              *)
(* (chunk_message), the alias builder (build_alias_map), and the command   *)
(* pipeline (pick_day_for_today, send_whatsapp_parts, job_send_today and   *)
(* the CLI branches) with the persisted state file last_day.json.          *)
(*                                                                         *)
(* Text is a sequence of one-character strings, so that len(), split(),    *)
(* rstrip() and the f-string formatting are computed, not assumed.         *)
(***************************************************************************)
EXTENDS Integers, Sequences, FiniteSets, TLC

VARIABLES
    \* chunk_message
    body, limit, parts, cpc,
    \* build_alias_map
    column, alias_days, loop_i, counts, alias_to_day, rows, writes, apc,
    \* command pipeline
    state_file, days, cmd, pc, day, weekday, nparts, sid, tok, to_list,
    to_pos, part_pos, sends, file_at_start, since_override, followed_override

chunkVars == <<body, limit, parts, cpc>>
aliasVars == <<column, alias_days, loop_i, counts, alias_to_day, rows, writes, apc>>
runVars == <<state_file, days, cmd, pc, day, weekday, nparts, sid, tok, to_list,
             to_pos, part_pos, sends, file_at_start, since_override,
             followed_override>>
vars == <<chunkVars, aliasVars, runVars>>

----------------------------------------------------------------------------
(* Bounds of the model *)

MaxLen == 7
MaxLimit == 7
MaxRows == 4
MaxDays == 3
MaxParts == 2
MaxRecipients == 2

----------------------------------------------------------------------------
(* Text primitives *)

NL == "\n"
SP == " "

\* The characters str.rstrip() removes, among those the model's texts hold.
Whitespace == {NL, SP}

Range(s) == {s[k] : k \in DOMAIN s}

RECURSIVE RStrip(_)
RStrip(s) ==
    IF s = <<>> THEN s
    ELSE IF s[Len(s)] \in Whitespace THEN RStrip(SubSeq(s, 1, Len(s) - 1))
    ELSE s

StartsWith(s, pre) == Len(s) >= Len(pre) /\ SubSeq(s, 1, Len(pre)) = pre

RECURSIVE SplitFrom(_, _, _)
SplitFrom(s, sep, acc) ==
    IF s = <<>> THEN <<acc>>
    ELSE IF StartsWith(s, sep)
         THEN <<acc>> \o SplitFrom(SubSeq(s, Len(sep) + 1, Len(s)), sep, <<>>)
         ELSE SplitFrom(Tail(s), sep, Append(acc, Head(s)))

\* str.split(sep): left to right, non-overlapping; "" splits to [""].
Split(s, sep) == SplitFrom(s, sep, <<>>)

DigitChar(d) == <<"0", "1", "2", "3", "4", "5", "6", "7", "8", "9">>[d + 1]

RECURSIVE Digits(_)
\* str(n) for n >= 0
Digits(n) == IF n < 10 THEN <<DigitChar(n)>> ELSE Append(Digits(n \div 10), DigitChar(n % 10))

----------------------------------------------------------------------------
(* chunk_message *)

\* The inner loop body with a hard cap: a line that cannot fit is cut at lim.
LineStepTruncates(ls, ln, lim) ==
    LET addl == Append(ln, NL)
    IN IF Len(ls.block) + Len(addl) <= lim
       THEN [ls EXCEPT !.block = @ \o addl]
       ELSE [parts |-> Append(ls.parts, RStrip(ls.block)),
             block |-> IF Len(addl) > lim THEN SubSeq(addl, 1, lim) ELSE addl]

\* The inner loop body: one line of an oversized paragraph.
LineStep(ls, ln, lim) ==
    LET addl == Append(ln, NL)
    IN IF Len(ls.block) + Len(addl) <= lim
       THEN [ls EXCEPT !.block = @ \o addl]
       ELSE [parts |-> Append(ls.parts, RStrip(ls.block)), block |-> addl]

RECURSIVE LineLoop(_, _, _)
LineLoop(ls, lines, lim) ==
    IF lines = <<>> THEN ls
    ELSE LineLoop(LineStep(ls, Head(lines), lim), Tail(lines), lim)

\* "If a single paragraph is too big, split by lines"
SplitByLines(ps, p, lim) ==
    LET lines == Split(Append(p, NL), <<NL>>)
        ls == LineLoop([parts |-> ps, block |-> <<>>], lines, lim)
    IN IF ls.block # <<>> THEN Append(ls.parts, RStrip(ls.block)) ELSE ls.parts

\* The outer loop body without the reset of cur after a flush: the flushed
\* text is carried into the next part.
ParaStepKeepsCur(st, p, lim) ==
    LET add == p \o <<NL, NL>>
    IN IF Len(st.cur) + Len(add) <= lim
       THEN [st EXCEPT !.cur = @ \o add]
       ELSE LET flushed == IF st.cur # <<>>
                           THEN Append(st.parts, RStrip(st.cur))
                           ELSE st.parts
            IN IF Len(add) > lim
               THEN [parts |-> SplitByLines(flushed, p, lim), cur |-> st.cur]
               ELSE [parts |-> flushed, cur |-> st.cur \o add]

\* The outer loop body: one paragraph.
ParaStep(st, p, lim) ==
    LET add == p \o <<NL, NL>>
    IN IF Len(st.cur) + Len(add) <= lim
       THEN [st EXCEPT !.cur = @ \o add]
       ELSE LET flushed == IF st.cur # <<>>
                           THEN Append(st.parts, RStrip(st.cur))
                           ELSE st.parts
            IN IF Len(add) > lim
               THEN [parts |-> SplitByLines(flushed, p, lim), cur |-> <<>>]
               ELSE [parts |-> flushed, cur |-> add]

RECURSIVE ParaLoop(_, _, _)
ParaLoop(st, paras, lim) ==
    IF paras = <<>> THEN st
    ELSE ParaLoop(ParaStep(st, Head(paras), lim), Tail(paras), lim)

\* The parts before the headers are added.
chunk_bodies(b, lim) ==
    LET st == ParaLoop([parts |-> <<>>, cur |-> <<>>], Split(b, <<NL, NL>>), lim)
    IN IF st.cur # <<>> THEN Append(st.parts, RStrip(st.cur)) ELSE st.parts

\* f"(Part {i}/{total})\n\n"
PartHeader(i, total) ==
    <<"(", "P", "a", "r", "t", " ">> \o Digits(i) \o <<"/">> \o Digits(total)
        \o <<")", NL, NL>>

AddHeaders(ps) ==
    IF Len(ps) > 1
    THEN [i \in 1..Len(ps) |-> PartHeader(i, Len(ps)) \o ps[i]]
    ELSE ps

chunk_message(b, lim) == AddHeaders(chunk_bodies(b, lim))

----------------------------------------------------------------------------
(* Inputs of the chunker *)

Chars == {"a", NL, SP}
Blobs == UNION {[1..n -> Chars] : n \in 0..MaxLen}
Limits == 1..MaxLimit

NotRun == <<"not run">>

AliasIdle ==
    /\ column = <<>> /\ alias_days = <<>> /\ loop_i = 0 /\ counts = <<>>
    /\ alias_to_day = <<>> /\ rows = <<>> /\ writes = <<>> /\ apc = "off"

NoDay == <<>>
Unset == "unset"
AbsentFile == [exists |-> FALSE, last_day |-> NoDay, rest_today |-> FALSE]

RunIdle ==
    /\ state_file = AbsentFile /\ days = <<>> /\ cmd = "off" /\ pc = "off"
    /\ day = NoDay /\ weekday = 0 /\ nparts = 0 /\ sid = Unset /\ tok = Unset
    /\ to_list = <<>> /\ to_pos = 0 /\ part_pos = 0 /\ sends = <<>>
    /\ file_at_start = AbsentFile /\ since_override = FALSE
    /\ followed_override = FALSE

ChunkIdle == body = <<>> /\ limit = 0 /\ parts = NotRun /\ cpc = "off"

InitChunk ==
    /\ body \in Blobs
    /\ limit \in Limits
    /\ parts = NotRun
    /\ cpc = "call"
    /\ AliasIdle
    /\ RunIdle

ChunkCall ==
    /\ cpc = "call"
    /\ parts' = chunk_message(body, limit)
    /\ cpc' = "returned"
    /\ UNCHANGED <<body, limit, aliasVars, runVars>>

NextChunk == ChunkCall

SpecChunk == InitChunk /\ [][NextChunk]_vars

----------------------------------------------------------------------------
(* What a reader of the returned parts sees *)

\* A part without its "(Part i/total)" header and the blank line after it,
\* when the header is present.
StripHeader(part, i, total) ==
    IF total > 1 /\ StartsWith(part, PartHeader(i, total))
    THEN SubSeq(part, Len(PartHeader(i, total)) + 1, Len(part))
    ELSE part

PartBodies == [i \in 1..Len(parts) |-> StripHeader(parts[i], i, Len(parts))]

BlobLines == Split(body, <<NL>>)

OversizedLines == {j \in 1..Len(BlobLines) : Len(BlobLines[j]) > limit}

Returned == cpc = "returned"

AllWhitespace(s) == \A k \in 1..Len(s) : s[k] \in Whitespace

RECURSIVE JoinWith(_, _)
\* bs[1] \o seps[1] \o bs[2] \o ... \o bs[n]
JoinWith(bs, seps) ==
    IF bs = <<>> THEN <<>>
    ELSE IF Len(bs) = 1 THEN bs[1]
    ELSE bs[1] \o seps[1] \o JoinWith(Tail(bs), Tail(seps))

RECURSIVE Interleaves(_, _)
\* s = bs[1] \o w1 \o bs[2] \o w2 \o ... \o bs[n] \o wn for whitespace runs w1..wn
Interleaves(bs, s) ==
    IF bs = <<>> THEN s = <<>>
    ELSE /\ StartsWith(s, Head(bs))
         /\ \E k \in 0..(Len(s) - Len(Head(bs))) :
               /\ AllWhitespace(SubSeq(s, Len(Head(bs)) + 1, Len(Head(bs)) + k))
               /\ Interleaves(Tail(bs), SubSeq(s, Len(Head(bs)) + k + 1, Len(s)))

----------------------------------------------------------------------------
(* Claims about chunk_message, checked under SpecChunk *)

NoEmptyBody == \A i \in 1..Len(parts) : PartBodies[i] # <<>>

\* C2 (as stated): every returned part, header included, is at most limit
\* characters long, unless it arises from a single line of the blob that is
\* itself longer than limit.  Stated on the results that hold no empty part,
\* so that a violation is the header's doing and not that of the empty parts
\* of C9.
C2_PartWithinLimit ==
    (Returned /\ NoEmptyBody) =>
        \A i \in 1..Len(parts) :
            \/ Len(parts[i]) <= limit
            \/ \E j \in OversizedLines : PartBodies[i] = RStrip(BlobLines[j])

\* C4 (as stated): the part bodies, rejoined with the separators the chunker
\* splits on (a blank line between paragraphs, a newline between lines),
\* give back the blob exactly.  Stated on the results that hold no empty
\* part, so that a violation does not rest on the empty parts of C9.
C4_RoundTripOriginal ==
    (Returned /\ NoEmptyBody) =>
        \E seps \in [1..(Len(parts) - 1) -> {<<NL>>, <<NL, NL>>}] :
            JoinWith(PartBodies, seps) = body

\* C4 (amended): the blob is exactly body 1, a whitespace run, body 2, a
\* whitespace run, ..., body n, a whitespace run: nothing but the whitespace
\* trimmed from the end of each part is lost, and nothing is duplicated or
\* reordered.
C4_RoundTripUpToTrimmedWhitespace ==
    Returned => Interleaves(PartBodies, body)

\* C4 witness: a blob split into two non-empty bodies whose end was trimmed.
C4_Witness ==
    /\ Returned
    /\ Len(parts) = 2
    /\ PartBodies[1] # <<>> /\ PartBodies[2] # <<>>
    /\ body # <<>> /\ body[Len(body)] = SP

\* C5 (as stated): every line of the blob longer than limit is, character for
\* character, the whole body of a part of its own.
C5_OversizedLineVerbatim ==
    Returned =>
        \A j \in OversizedLines :
            \E i \in 1..Len(parts) : PartBodies[i] = BlobLines[j]

\* C5 (amended): every line of the blob longer than limit is the whole body
\* of a part of its own, verbatim except that the line's trailing whitespace
\* is trimmed; as many such parts exist as there are such lines.
C5_OversizedLineOwnPart ==
    Returned =>
        \A j \in OversizedLines :
            Cardinality({i \in 1..Len(parts) : PartBodies[i] = RStrip(BlobLines[j])})
                >= Cardinality({k \in OversizedLines :
                                    RStrip(BlobLines[k]) = RStrip(BlobLines[j])})

\* C5 witness: an oversized line among other lines, emitted as its own part.
C5_Witness ==
    /\ Returned
    /\ \E j \in OversizedLines :
          /\ Len(BlobLines) > 1
          /\ RStrip(BlobLines[j]) # <<>>
          /\ \E i \in 1..Len(parts) :
                PartBodies[i] = RStrip(BlobLines[j]) /\ Len(PartBodies[i]) > limit

\* C9 (as stated): for a non-empty blob and limit >= 1 no returned part has
\* an empty body.
C9_NoEmptyPart ==
    (Returned /\ body # <<>> /\ limit >= 1) =>
        \A i \in 1..Len(parts) : PartBodies[i] # <<>>

----------------------------------------------------------------------------
(* Day labels of the plan's Day column *)

\* A missing cell of the Day column, which dropna() removes.
NaN == <<"NaN">>

LabelPull == <<"P", "u", "l", "l">>
LabelPush == <<"P", "U", "S", "H">>
LabelLegs == <<"L", "e", "g", "s">>
LabelCardio == <<"C", "a", "r", "d", "i", "o">>
LabelRest == <<"R", "e", "s", "t">>
LabelPushPull == <<"P", "u", "s", "h", "P", "u", "l", "l">>

LabelSeq == <<LabelPull, LabelPush, LabelPushPull, LabelLegs, LabelCardio, LabelRest>>
Labels == Range(LabelSeq)

\* str.lower() on the letters the labels hold.
LowerChar(c) ==
    CASE c = "P" -> "p" [] c = "U" -> "u" [] c = "S" -> "s" [] c = "H" -> "h"
      [] c = "L" -> "l" [] c = "C" -> "c" [] c = "R" -> "r" [] OTHER -> c

Lower(s) == [k \in 1..Len(s) |-> LowerChar(s[k])]

\* Python's "kw in s"
Contains(s, kw) ==
    \E k \in 0..(Len(s) - Len(kw)) : SubSeq(s, k + 1, k + Len(kw)) = kw

pull == <<"p", "u", "l", "l">>
push == <<"p", "u", "s", "h">>
legs == <<"l", "e", "g", "s">>
cardio == <<"c", "a", "r", "d", "i", "o">>
general == <<"g", "e", "n", "e", "r", "a", "l">>
Categories == {pull, push, legs, cardio, general}

classify_day(day_name) ==
    LET name == Lower(day_name)
    IN IF Contains(name, pull) THEN pull
       ELSE IF Contains(name, push) THEN push
       ELSE IF Contains(name, <<"l", "e", "g">>) \/ Contains(name, legs) THEN legs
       ELSE IF Contains(name, cardio) THEN cardio
       ELSE general

RECURSIVE UniqueFrom(_, _)
UniqueFrom(col, out) ==
    IF col = <<>> THEN out
    ELSE IF Head(col) = NaN \/ Head(col) \in Range(out)
         THEN UniqueFrom(Tail(col), out)
         ELSE UniqueFrom(Tail(col), Append(out, Head(col)))

ordered_unique_days(col) == UniqueFrom(col, <<>>)

----------------------------------------------------------------------------
(* build_alias_map, one loop iteration per step *)

\* dict assignment m[k] = v
Put(m, k, v) == [x \in (DOMAIN m) \cup {k} |-> IF x = k THEN v ELSE m[x]]

\* The alias without its occurrence count.
AliasKeyNoCount(typ, n) == typ

\* f"{typ}{counts[typ]}"

AliasKey(typ, n) == typ \o Digits(n)

Columns == UNION {[1..n -> Labels \cup {NaN}] : n \in 0..MaxRows}

InitAlias ==
    /\ column \in Columns
    /\ alias_days = <<>> /\ loop_i = 0 /\ counts = <<>>
    /\ alias_to_day = <<>> /\ rows = <<>> /\ writes = <<>>
    /\ apc = "call"
    /\ ChunkIdle
    /\ RunIdle

AliasStart ==
    /\ apc = "call"
    /\ alias_days' = ordered_unique_days(column)
    /\ counts' = [c \in Categories |-> 0]
    /\ alias_to_day' = <<>>
    /\ rows' = <<>>
    /\ loop_i' = 1
    /\ apc' = "loop"
    /\ UNCHANGED <<column, writes, chunkVars, runVars>>

AliasIter ==
    /\ apc = "loop"
    /\ loop_i <= Len(alias_days)
    /\ LET d == alias_days[loop_i]
           typ == classify_day(d)
           n == counts[typ] + 1
           alias == AliasKey(typ, n)
           m1 == Put(alias_to_day, alias, d)
       IN /\ counts' = [counts EXCEPT ![typ] = n]
          /\ alias_to_day' = IF n = 1 THEN Put(m1, typ, d) ELSE m1
          /\ writes' = IF n = 1
                       THEN writes \o << <<alias, d>>, <<typ, d>> >>
                       ELSE Append(writes, <<alias, d>>)
          /\ rows' = Append(rows, <<alias, d>>)
    /\ loop_i' = loop_i + 1
    /\ UNCHANGED <<column, alias_days, apc, chunkVars, runVars>>

AliasReturn ==
    /\ apc = "loop"
    /\ loop_i > Len(alias_days)
    /\ apc' = "returned"
    /\ UNCHANGED <<column, alias_days, loop_i, counts, alias_to_day, rows, writes,
                   chunkVars, runVars>>

NextAlias == AliasStart \/ AliasIter \/ AliasReturn

SpecAlias == InitAlias /\ [][NextAlias]_vars

\* build_alias_map as a function of the plan's days, for the CLI's --send-key
RECURSIVE AliasFold(_, _, _)
AliasFold(ds, cnt, m) ==
    IF ds = <<>> THEN m
    ELSE LET typ == classify_day(Head(ds))
             n == cnt[typ] + 1
             m1 == Put(m, AliasKey(typ, n), Head(ds))
         IN AliasFold(Tail(ds), [cnt EXCEPT ![typ] = n],
                      IF n = 1 THEN Put(m1, typ, Head(ds)) ELSE m1)

build_alias_map(ds) == AliasFold(ds, [c \in Categories |-> 0], <<>>)

----------------------------------------------------------------------------
(* Claim about build_alias_map, checked under SpecAlias *)

DigitChars == {DigitChar(d) : d \in 0..9}

NumberedKeys == {k \in DOMAIN alias_to_day : k # <<>> /\ k[Len(k)] \in DigitChars}
BareKeys == (DOMAIN alias_to_day) \ NumberedKeys

PlanDays == Range(column) \ {NaN}

\* The first day of category c, in the column's order.
FirstDayOf(c) ==
    LET at == {k \in 1..Len(column) : column[k] # NaN /\ classify_day(column[k]) = c}
    IN column[CHOOSE k \in at : \A j \in at : k <= j]

\* C7: the returned map holds exactly one numbered alias per unique day
\* (category followed by a 1-based count), plus one bare-category alias per
\* category that occurs, at most 5, each mapped to the first day of its
\* category; and while the map is built no alias key is ever assigned two
\* different days.
C7_AliasUnique ==
    /\ \A v, w \in Range(writes) : v[1] = w[1] => v[2] = w[2]
    /\ apc = "returned" =>
          /\ Cardinality(NumberedKeys) = Cardinality(PlanDays)
          /\ {alias_to_day[k] : k \in NumberedKeys} = PlanDays
          /\ \A k \in NumberedKeys :
                \E c \in Categories, n \in 1..Cardinality(PlanDays) :
                    k = c \o Digits(n) /\ classify_day(alias_to_day[k]) = c
          /\ Cardinality(BareKeys) <= 5
          /\ BareKeys = {classify_day(d) : d \in PlanDays}
          /\ \A c \in BareKeys : alias_to_day[c] = FirstDayOf(c)

\* C7 witness: a returned map with two days of one category (pull1, pull2 and
\* the bare pull) and a day of another.
C7_Witness ==
    /\ apc = "returned"
    /\ Cardinality(PlanDays) >= 3
    /\ pull \o Digits(2) \in DOMAIN alias_to_day
    /\ pull \in DOMAIN alias_to_day
    /\ Cardinality(BareKeys) >= 2

----------------------------------------------------------------------------
(* The command pipeline: one invocation at a time *)

\* datetime.now().weekday()
Weekdays == 0..6

\* os.getenv of a variable that is not set
NoneVal == "None"

SidValues == {NoneVal, "", "AC1"}
TokValues == {NoneVal, "", "tk1"}

RECURSIVE LStrip(_)
LStrip(s) ==
    IF s = <<>> THEN s
    ELSE IF Head(s) \in Whitespace THEN LStrip(Tail(s))
    ELSE s

\* str.strip()
Strip(s) == LStrip(RStrip(s))

RECURSIVE JoinComma(_)
JoinComma(es) ==
    IF es = <<>> THEN <<>>
    ELSE IF Len(es) = 1 THEN es[1]
    ELSE es[1] \o <<",">> \o JoinComma(Tail(es))

\* The comma-separated entries WHATSAPP_TO_LIST may hold; unset reads as "".
RawEntries == {<<>>, <<SP>>, <<"1">>, <<SP, "2", SP>>}
RawToLists == {JoinComma(es) : es \in UNION {[1..n -> RawEntries] : n \in 0..MaxRecipients}}

RECURSIVE StripNonEmpty(_)
StripNonEmpty(xs) ==
    IF xs = <<>> THEN <<>>
    ELSE IF Strip(Head(xs)) # <<>>
         THEN <<Strip(Head(xs))>> \o StripNonEmpty(Tail(xs))
         ELSE StripNonEmpty(Tail(xs))

\* [x.strip() for x in raw.split(",") if x.strip()]
ParseToList(raw) == StripNonEmpty(Split(raw, <<",">>))

\* The check without the recipient list.
CredsMissingNoList(s, t, tl) == s \in {NoneVal, ""} \/ t \in {NoneVal, ""}

\* "if not sid or not tok or not to_list"

CredsMissing(s, t, tl) == s \in {NoneVal, ""} \/ t \in {NoneVal, ""} \/ tl = <<>>

\* pick_day_for_today without the write that clears rest_today.
pick_day_keep_flag(ds, wd, f) ==
    IF f.exists /\ f.rest_today
    THEN [day |-> f.last_day, file |-> f]
    ELSE [day |-> ds[(wd % Len(ds)) + 1], file |-> f]

\* pick_day_for_today: the day it returns and the state file it leaves.
pick_day_for_today(ds, wd, f) ==
    LET idx == wd % Len(ds)
    IN IF f.exists /\ f.rest_today
       THEN [day |-> f.last_day, file |-> [f EXCEPT !.rest_today = FALSE]]
       ELSE [day |-> ds[idx + 1], file |-> f]

\* The loops nested the other way round: for each part, every recipient.
NextPosPartsOuter(r, p, nto, np) ==
    IF r < nto THEN [to |-> r + 1, part |-> p] ELSE [to |-> 1, part |-> p + 1]

\* The nested loops of send_whatsapp_parts: the position after (r, p).
NextPos(r, p, nto, np) ==
    IF p < np THEN [to |-> r, part |-> p + 1] ELSE [to |-> r + 1, part |-> 1]

\* A send whose exception is caught and ignored.
AfterSendSwallow(ok, last) == IF last THEN "sent" ELSE "sending"

\* Where send_whatsapp_parts is after one client.messages.create: an
\* exception propagates, the last send returns, any other continues.
AfterSend(ok, last) ==
    IF ~ok THEN "aborted" ELSE IF last THEN "sent" ELSE "sending"

\* json.dump({"last_day": day, "rest_today": False}, f)
CommittedFile(d) == [exists |-> TRUE, last_day |-> d, rest_today |-> FALSE]

SendingCmds == {"send_today", "send_key", "send_day"}

KeyInputs == {pull, <<SP, "P", "U", "S", "H", "1">>, pull \o <<"2">>, legs}
DayInputs == {LabelPull, LabelPush \o <<SP>>, LabelRest}

Plans == {SubSeq(LabelSeq, 1, n) : n \in 1..MaxDays}

InitRun ==
    /\ days \in {ordered_unique_days(c) : c \in Plans}
    /\ state_file = AbsentFile
    /\ cmd = "none" /\ pc = "idle"
    /\ day = NoDay /\ weekday = 0 /\ nparts = 0 /\ sid = Unset /\ tok = Unset
    /\ to_list = <<>> /\ to_pos = 0 /\ part_pos = 0 /\ sends = <<>>
    /\ file_at_start = AbsentFile
    /\ since_override = FALSE /\ followed_override = FALSE
    /\ ChunkIdle
    /\ AliasIdle

sendLocals == <<nparts, sid, tok, to_list, to_pos, part_pos, sends>>

\* The state file edited by hand between invocations.
ExternalEdit ==
    /\ pc = "idle"
    /\ \E f \in {AbsentFile} \cup
               {[exists |-> TRUE, last_day |-> d, rest_today |-> b] :
                    d \in Range(days), b \in BOOLEAN} :
          /\ f # state_file
          /\ state_file' = f
          /\ file_at_start' = f
    /\ since_override' = FALSE
    /\ UNCHANGED <<days, cmd, pc, day, weekday, sendLocals, followed_override,
                   chunkVars, aliasVars>>

\* job_send_today up to "day = pick_day_for_today(days)"
\* (--send-today, or the scheduler's daily trigger)
JobPick ==
    /\ pc = "idle"
    /\ \E wd \in Weekdays :
          LET r == pick_day_for_today(days, wd, state_file)
          IN /\ weekday' = wd
             /\ day' = r.day
             /\ state_file' = r.file
    /\ cmd' = "send_today"
    /\ pc' = "selected"
    /\ file_at_start' = state_file
    /\ followed_override' = since_override
    /\ since_override' = (since_override \/ (state_file.exists /\ state_file.rest_today))
    /\ UNCHANGED <<days, sendLocals, chunkVars, aliasVars>>

\* --preview up to "day = pick_day_for_today(days)"
PreviewPick ==
    /\ pc = "idle"
    /\ \E wd \in Weekdays :
          LET r == pick_day_for_today(days, wd, state_file)
          IN /\ weekday' = wd
             /\ day' = r.day
             /\ state_file' = r.file
    /\ cmd' = "preview"
    /\ pc' = "selected"
    /\ file_at_start' = state_file
    /\ UNCHANGED <<days, sendLocals, since_override, followed_override,
                   chunkVars, aliasVars>>

\* --preview: build, chunk and print the parts
PreviewPrint ==
    /\ pc = "selected" /\ cmd = "preview"
    /\ pc' = "done"
    /\ weekday' = 0
    /\ UNCHANGED <<state_file, days, cmd, day, sendLocals, file_at_start,
                   since_override, followed_override, chunkVars, aliasVars>>

\* --send-key: resolve the alias, or report it as not found
SendKey ==
    /\ pc = "idle"
    /\ \E k \in KeyInputs :
          LET key == Lower(Strip(k))
              alias_map == build_alias_map(days)
          IN IF key \notin DOMAIN alias_map
             THEN day' = NoDay /\ pc' = "done"
             ELSE day' = alias_map[key] /\ pc' = "selected"
    /\ cmd' = "send_key"
    /\ file_at_start' = state_file
    /\ UNCHANGED <<state_file, days, weekday, sendLocals, since_override,
                   followed_override, chunkVars, aliasVars>>

\* --send-day: look the day up, or report it as not found
SendDay ==
    /\ pc = "idle"
    /\ \E d \in DayInputs :
          IF Strip(d) \notin Range(days)
          THEN day' = NoDay /\ pc' = "done"
          ELSE day' = Strip(d) /\ pc' = "selected"
    /\ cmd' = "send_day"
    /\ file_at_start' = state_file
    /\ UNCHANGED <<state_file, days, weekday, sendLocals, since_override,
                   followed_override, chunkVars, aliasVars>>

\* build_message_for_day and chunk_message: the message becomes a list of
\* parts (here only their number matters)
BuildAndChunk ==
    /\ pc = "selected" /\ cmd \in SendingCmds
    /\ \E n \in 1..MaxParts : nparts' = n
    /\ weekday' = 0
    /\ pc' = "chunked"
    /\ UNCHANGED <<state_file, days, cmd, day, sid, tok, to_list, to_pos, part_pos,
                   sends, file_at_start, since_override, followed_override,
                   chunkVars, aliasVars>>

\* send_whatsapp_parts up to the credentials check
SendEnter ==
    /\ pc = "chunked"
    /\ \E s \in SidValues, t \in TokValues, raw \in RawToLists :
          /\ sid' = s
          /\ tok' = t
          /\ to_list' = ParseToList(raw)
          /\ IF CredsMissing(s, t, ParseToList(raw))
             THEN pc' = "aborted" /\ to_pos' = 0 /\ part_pos' = 0
             ELSE pc' = "sending" /\ to_pos' = 1 /\ part_pos' = 1
    /\ UNCHANGED <<state_file, days, cmd, day, weekday, nparts, sends, file_at_start,
                   since_override, followed_override, chunkVars, aliasVars>>

\* One client.messages.create(...), which returns or raises
SendOne ==
    /\ pc = "sending"
    /\ to_pos <= Len(to_list) /\ part_pos <= nparts
    /\ \E ok \in BOOLEAN :
          LET nxt == NextPos(to_pos, part_pos, Len(to_list), nparts)
          IN /\ sends' = Append(sends, [to |-> to_pos, num |-> to_list[to_pos],
                                        part |-> part_pos, ok |-> ok])
             /\ pc' = AfterSend(ok, nxt.to > Len(to_list) \/ nxt.part > nparts)
             /\ to_pos' = nxt.to
             /\ part_pos' = nxt.part
    /\ UNCHANGED <<state_file, days, cmd, day, weekday, nparts, sid, tok, to_list,
                   file_at_start, since_override, followed_override,
                   chunkVars, aliasVars>>

\* The state file written after send_whatsapp_parts has returned
Commit ==
    /\ pc = "sent"
    /\ state_file' = CommittedFile(day)
    /\ pc' = "done"
    /\ UNCHANGED <<days, cmd, day, weekday, sendLocals, file_at_start,
                   since_override, followed_override, chunkVars, aliasVars>>

\* The invocation ends (the process exits, or the scheduler waits for the
\* next trigger); its locals are gone
Finish ==
    /\ pc \in {"done", "aborted"}
    /\ pc' = "idle"
    /\ cmd' = "none"
    /\ day' = NoDay /\ weekday' = 0 /\ nparts' = 0 /\ sid' = Unset /\ tok' = Unset
    /\ to_list' = <<>> /\ to_pos' = 0 /\ part_pos' = 0 /\ sends' = <<>>
    /\ file_at_start' = state_file
    /\ followed_override' = FALSE
    /\ UNCHANGED <<state_file, days, since_override, chunkVars, aliasVars>>

NextRun ==
    \/ ExternalEdit
    \/ JobPick
    \/ PreviewPick
    \/ PreviewPrint
    \/ SendKey
    \/ SendDay
    \/ BuildAndChunk
    \/ SendEnter
    \/ SendOne
    \/ Commit
    \/ Finish

SpecRun == InitRun /\ [][NextRun]_vars

----------------------------------------------------------------------------
(* Claims about the command pipeline, checked under SpecRun *)

DefaultDay == days[(weekday % Len(days)) + 1]

Attempts == [k \in 1..Len(sends) |-> <<sends[k].to, sends[k].part>>]

\* (recipient 1: part 1..n, recipient 2: part 1..n, ...)
FullOrder ==
    [k \in 1..(Len(to_list) * nparts) |->
        <<((k - 1) \div nparts) + 1, ((k - 1) % nparts) + 1>>]

AllOk == \A k \in 1..Len(sends) : sends[k].ok

\* send_whatsapp_parts has been entered in this invocation
SendEntered == sid # Unset

\* C1: an automatic run that starts with rest_today true selects last_day
\* and leaves rest_today false in the file; the automatic run that follows
\* it with no external edit in between does not override again and selects
\* days[weekday mod len(days)].
C1_OneShotOverride ==
    (pc = "selected" /\ cmd = "send_today") =>
        /\ (file_at_start.exists /\ file_at_start.rest_today) =>
              /\ day = file_at_start.last_day
              /\ state_file = [file_at_start EXCEPT !.rest_today = FALSE]
        /\ followed_override =>
              /\ ~(file_at_start.exists /\ file_at_start.rest_today)
              /\ day = DefaultDay

\* C1 witness: the automatic run after an overriding one, selecting the
\* weekday's day although the file's last_day is another day.
C1_Witness ==
    /\ pc = "selected" /\ cmd = "send_today"
    /\ followed_override
    /\ state_file.exists
    /\ day = DefaultDay
    /\ state_file.last_day # day

\* C3: the sends submitted so far are a prefix of the full order (recipients
\* in list order, for each the parts in order), only the last one can have
\* failed, none is submitted twice, and when send_whatsapp_parts is over
\* with no failed send the order is complete.
C3_DeliveryOrder ==
    /\ Len(sends) <= Len(FullOrder)
    /\ Attempts = SubSeq(FullOrder, 1, Len(sends))
    /\ \A k \in 1..Len(sends) : sends[k].num = to_list[sends[k].to]
    /\ \A k \in 1..(Len(sends) - 1) : sends[k].ok
    /\ \A j, k \in 1..Len(sends) : j # k => Attempts[j] # Attempts[k]
    /\ (pc = "aborted" /\ sends # <<>>) => ~sends[Len(sends)].ok
    /\ (pc \in {"sent", "done", "aborted"} /\ SendEntered /\ AllOk
            /\ sid \notin {NoneVal, ""} /\ tok \notin {NoneVal, ""})
          => Attempts = FullOrder

\* C3 witness: two recipients, two parts, the third send (the second
\* recipient's first part) fails and nothing follows.
C3_Witness ==
    /\ pc = "aborted"
    /\ Len(to_list) = 2 /\ nparts = 2
    /\ Len(sends) = 3
    /\ ~sends[3].ok
    /\ sends[3].to = 2 /\ sends[3].part = 1

\* C6: when the account identifier, the auth secret or the recipient list is
\* absent or empty, send_whatsapp_parts ends in an error with no send
\* submitted.
C6_AuthErrorBeforeSend ==
    (SendEntered /\ (\/ sid \in {NoneVal, ""}
                     \/ tok \in {NoneVal, ""}
                     \/ to_list = <<>>))
        => (pc = "aborted" /\ sends = <<>>)

\* C6 witness: credentials present, recipient list empty, parts to send.
C6_Witness ==
    /\ pc = "aborted"
    /\ sid = "AC1" /\ tok = "tk1"
    /\ to_list = <<>>
    /\ nparts >= 1
    /\ sends = <<>>

\* C8 (as stated): a finished preview has left the state file as it found it.
C8_PreviewLeavesState ==
    (pc = "done" /\ cmd = "preview") => state_file = file_at_start

\* C10: in a sending command last_day keeps the value it had when the command
\* started until every part has been submitted successfully to every
\* recipient; an aborted command leaves it at that value.
C10_LastDayAfterDelivery ==
    cmd \in SendingCmds =>
        /\ pc \in {"selected", "chunked", "sending", "sent", "aborted"} =>
              /\ state_file.last_day = file_at_start.last_day
              /\ state_file.exists = file_at_start.exists
        /\ (pc = "done" /\ state_file.last_day # file_at_start.last_day) =>
              /\ AllOk
              /\ Attempts = FullOrder
              /\ to_list # <<>>
              /\ state_file.last_day = day

\* C10 witness: a command aborted by a failed send after a successful one,
\* with last_day still the earlier day and not the day being sent.
C10_Witness ==
    /\ pc = "aborted"
    /\ cmd \in SendingCmds
    /\ Len(sends) >= 2
    /\ state_file.exists
    /\ state_file.last_day # day

====
